---- MODULE Spec2Model ----
(***************************************************************************)
(* The API client of termius-cli (termius/core/api.py): the credential     *)
(* signer TermiusAuth, the password digest, and the API class with its      *)
(* login handshake, response classification and CRUD calls.                 *)
(*                                                                         *)
(* The client is single threaded and synchronous, so one call is one       *)
(* atomic step.  The remote service and the network are the environment:   *)
(* every call draws either a response (status, body text) or a transport   *)
(* failure.  Python's assert statement is modelled as executed (the        *)
(* interpreter runs without -O).                                           *)
(***************************************************************************)
EXTENDS Integers, Sequences, FiniteSets, TLC

-----------------------------------------------------------------------------
(* Python values.  None is the empty sequence and a present value v is     *)
(* <<v>>; text that is hashed is a sequence of code points, other text is  *)
(* a string.                                                               *)

None == <<>>
Some(v) == <<v>>
Opt(S) == {None} \cup {Some(v) : v \in S}

\* Python truth of an optional string: None and '' are false.
Truthy(o) == o # None /\ o[1] # ""

-----------------------------------------------------------------------------
(* Bounds and the inputs drawn by the environment and the caller.          *)

\* Longest plaintext password the caller types.
MaxPasswordLen == 1

\* Code points a password is made of: 'a' and the Cyrillic letter 'п'.
PasswordChars == {97, 1087}

RECURSIVE TextsUpTo(_)
TextsUpTo(n) ==
  IF n = 0 THEN {<<>>}
  ELSE LET shorter == TextsUpTo(n - 1)
       IN  shorter \cup {Append(t, c) : t \in {u \in shorter : Len(u) = n - 1},
                                         c \in PasswordChars}

Passwords == TextsUpTo(MaxPasswordLen)

Usernames == {"", "a@b.com"}
ApiKeys == {"", "key1"}
Emails == {"a@b.com"}
AuthyTokens == {"123456"}
Endpoints == {"v2/terminal/host/"}
Datas == {"{\"label\": \"web\"}"}

BodyEmpty == ""
BodyText == "Not Found"
BodyObject == "{}"
BodyToken == "{\"token\": \"abc123\"}"
BodyEmptyToken == "{\"token\": \"\"}"
Bodies == {BodyEmpty, BodyText, BodyObject, BodyToken, BodyEmptyToken}

Statuses == {200, 201, 202, 204, 404, 487, 490}

\* What the network hands back: None is a transport failure.
Responses == Opt([status_code : Statuses, text : Bodies])

-----------------------------------------------------------------------------
(* hashlib.sha256: FIPS 180-4 on 32-bit words kept as <<high, low>> pairs   *)
(* of 16-bit halves.                                                        *)

SHA256_K ==
  <<
     <<17034, 12184>>, <<28983, 17553>>, <<46528, 64463>>, <<59829, 56229>>,
     <<14678, 49755>>, <<23025, 4593>>, <<37439, 33444>>, <<43804, 24277>>,
     <<55303, 43672>>, <<4739, 23297>>, <<9265, 34238>>, <<21772, 32195>>,
     <<29374, 23924>>, <<32990, 45566>>, <<39900, 1703>>, <<49563, 61812>>,
     <<58523, 27073>>, <<61374, 18310>>, <<4033, 40390>>, <<9228, 41420>>,
     <<11753, 11375>>, <<19060, 33962>>, <<23728, 43484>>, <<30457, 35034>>,
     <<38974, 20818>>, <<43057, 50797>>, <<45059, 10184>>, <<48985, 32711>>,
     <<50912, 3059>>, <<54695, 37191>>, <<1738, 25425>>, <<5161, 10599>>,
     <<10167, 2693>>, <<11803, 8504>>, <<19756, 28156>>, <<21304, 3347>>,
     <<25866, 29524>>, <<30314, 2747>>, <<33218, 51502>>, <<37490, 11397>>,
     <<41663, 59553>>, <<43034, 26187>>, <<49739, 35696>>, <<51052, 20899>>,
     <<53650, 59417>>, <<54937, 1572>>, <<62478, 13701>>, <<4202, 41072>>,
     <<6564, 49430>>, <<7735, 27656>>, <<10056, 30540>>, <<13488, 48309>>,
     <<14620, 3251>>, <<20184, 43594>>, <<23452, 51791>>, <<26670, 28659>>,
     <<29839, 33518>>, <<30885, 25455>>, <<33992, 30740>>, <<36039, 520>>,
     <<37054, 65530>>, <<42064, 27883>>, <<48889, 41975>>, <<50801, 30962>>
  >>

SHA256_H0 ==
  <<
     <<27145, 58983>>, <<47975, 44677>>, <<15470, 62322>>, <<42319, 62778>>,
     <<20750, 21119>>, <<39685, 26764>>, <<8067, 55723>>, <<23520, 52505>>
  >>

RECURSIVE Xor16(_, _)
Xor16(a, b) ==
  IF a = 0 THEN b
  ELSE IF b = 0 THEN a
  ELSE 2 * Xor16(a \div 2, b \div 2) + ((a + b) % 2)

RECURSIVE And16(_, _)
And16(a, b) ==
  IF a = 0 \/ b = 0 THEN 0
  ELSE 2 * And16(a \div 2, b \div 2) + ((a % 2) * (b % 2))

RECURSIVE Pow2(_)
Pow2(n) == IF n = 0 THEN 1 ELSE 2 * Pow2(n - 1)

WXor(x, y) == <<Xor16(x[1], y[1]), Xor16(x[2], y[2])>>
WAnd(x, y) == <<And16(x[1], y[1]), And16(x[2], y[2])>>
WNot(x) == <<65535 - x[1], 65535 - x[2]>>
WAdd(x, y) ==
  LET lo == x[2] + y[2]
  IN  <<(x[1] + y[1] + (lo \div 65536)) % 65536, lo % 65536>>

Rotr(x, n) ==
  LET y == IF n >= 16 THEN <<x[2], x[1]>> ELSE x
      m == n % 16
  IN  IF m = 0 THEN y
      ELSE <<(y[1] \div Pow2(m)) + (y[2] % Pow2(m)) * Pow2(16 - m),
             (y[2] \div Pow2(m)) + (y[1] % Pow2(m)) * Pow2(16 - m)>>

Shr(x, n) ==
  IF n >= 16 THEN <<0, x[1] \div Pow2(n - 16)>>
  ELSE <<x[1] \div Pow2(n),
         (x[2] \div Pow2(n)) + (x[1] % Pow2(n)) * Pow2(16 - n)>>

SmallSigma0(x) == WXor(WXor(Rotr(x, 7), Rotr(x, 18)), Shr(x, 3))
SmallSigma1(x) == WXor(WXor(Rotr(x, 17), Rotr(x, 19)), Shr(x, 10))
BigSigma0(x) == WXor(WXor(Rotr(x, 2), Rotr(x, 13)), Rotr(x, 22))
BigSigma1(x) == WXor(WXor(Rotr(x, 6), Rotr(x, 11)), Rotr(x, 25))
Ch(e, f, g) == WXor(WAnd(e, f), WAnd(WNot(e), g))
Maj(a, b, c) == WXor(WXor(WAnd(a, b), WAnd(a, c)), WAnd(b, c))

Zeros(n) == [i \in 1..n |-> 0]

Pad(bytes) ==
  LET n == Len(bytes)
      bits == 8 * n
  IN  bytes \o <<128>> \o Zeros((64 - ((n + 9) % 64)) % 64)
        \o <<0, 0, 0, 0, bits \div 16777216, (bits \div 65536) % 256,
             (bits \div 256) % 256, bits % 256>>

BlockWords(m, b) ==
  [i \in 1..16 |->
     LET o == 64 * (b - 1) + 4 * (i - 1)
     IN  <<256 * m[o + 1] + m[o + 2], 256 * m[o + 3] + m[o + 4]>>]

RECURSIVE Schedule(_)
Schedule(w) ==
  IF Len(w) = 64 THEN w
  ELSE LET t == Len(w) + 1
       IN  Schedule(Append(w,
             WAdd(WAdd(SmallSigma1(w[t - 2]), w[t - 7]),
                  WAdd(SmallSigma0(w[t - 15]), w[t - 16]))))

Round(s, k, w) ==
  LET t1 == WAdd(WAdd(WAdd(s[8], BigSigma1(s[5])), Ch(s[5], s[6], s[7])),
                 WAdd(k, w))
      t2 == WAdd(BigSigma0(s[1]), Maj(s[1], s[2], s[3]))
  IN  <<WAdd(t1, t2), s[1], s[2], s[3], WAdd(s[4], t1), s[5], s[6], s[7]>>

RECURSIVE Rounds(_, _)
Rounds(states, w) ==
  IF Len(states) = 65 THEN states[65]
  ELSE LET t == Len(states)
       IN  Rounds(Append(states, Round(states[t], SHA256_K[t], w[t])), w)

Compress(h, block) ==
  LET s == Rounds(<<h>>, Schedule(block))
  IN  [i \in 1..8 |-> WAdd(h[i], s[i])]

RECURSIVE Blocks(_, _, _)
Blocks(h, m, b) ==
  IF 64 * (b - 1) >= Len(m) THEN h
  ELSE Blocks(Compress(h, BlockWords(m, b)), m, b + 1)

sha256(bytes) == Blocks(SHA256_H0, Pad(bytes), 1)

HexChar(d) == IF d < 10 THEN 48 + d ELSE 87 + d
Hex16(v) == <<HexChar(v \div 4096), HexChar((v \div 256) % 16),
              HexChar((v \div 16) % 16), HexChar(v % 16)>>
RECURSIVE HexWords(_)
HexWords(ws) ==
  IF ws = <<>> THEN <<>>
  ELSE Hex16(Head(ws)[1]) \o Hex16(Head(ws)[2]) \o HexWords(Tail(ws))
hexdigest(h) == HexWords(h)

-----------------------------------------------------------------------------
(* Exceptions and the outcome of a call.                                   *)

\* An exception and what it carries: a status code and/or a text.
Exception(type, status_code, text) ==
  [type |-> type, status_code |-> status_code, text |-> text]

Return(value) == [raised |-> None, value |-> Some(value)]
Raise(exc) == [raised |-> Some(exc), value |-> None]

OutdatedVersionMessage ==
  "The current version of Termius CLI is "
    \o "incompatible with new Termius encryption algorithms."

-----------------------------------------------------------------------------
(* requests: the request a call puts on the wire, and Response.json().     *)

\* requests.request(method, url, data=, json=, auth=, timeout=): auth, when
\* given, is called on the prepared request and edits its headers.
Request(method, url, headers, data, json, timeout) ==
  [method |-> method, url |-> url, headers |-> headers,
   data |-> data, json |-> json, timeout |-> timeout]

\* Response.json(): the decoded body, a JSON object given as its set of
\* <<field, value>> pairs; None when the text is not JSON (ValueError).
response_json(response) ==
  CASE response.text = BodyObject -> Some({})
    [] response.text = BodyToken -> Some({<<"token", "abc123">>})
    [] response.text = BodyEmptyToken -> Some({<<"token", "">>})
    [] OTHER -> None

HasKey(dict, key) == \E item \in dict : item[1] = key
GetItem(dict, key) == (CHOOSE item \in dict : item[1] = key)[2]

-----------------------------------------------------------------------------
(* class TermiusAuth                                                       *)

header_name == "Authorization"

TermiusAuth(username, apikey) == [username |-> username, apikey |-> apikey]

\* Mutant: the two credentials in each other's place.
auth_header_swapped(self) ==
  "ApiKey " \o self.apikey \o ":" \o self.username

auth_header(self) == "ApiKey " \o self.username \o ":" \o self.apikey

\* TermiusAuth.__call__: the headers with the Authorization header set.
TermiusAuth_call(self, headers) ==
  {h \in headers : h[1] # header_name} \cup {<<header_name, auth_header(self)>>}

\* What requests does with auth=: None leaves the headers alone.
ApplyAuth(auth, headers) ==
  IF auth = None THEN headers ELSE TermiusAuth_call(auth[1], headers)

-----------------------------------------------------------------------------
(* hash_password                                                           *)

\* six.b(password): password.encode('latin-1') on Python 3 (on Python 2 the
\* text is handed on and sha256 encodes it, as ASCII).  None stands for the
\* UnicodeEncodeError a code point above 255 raises.
six_b(password) ==
  IF \E i \in 1..Len(password) : password[i] > 255 THEN None
  ELSE Some(password)

hash_password(password) ==
  LET bytes == six_b(password)
  IN  IF bytes = None THEN None ELSE Some(hexdigest(sha256(bytes[1])))

\* hash_password on every password of the model, computed once.
HashedPasswords == {<<password, hash_password(password)>> : password \in Passwords}

Hashed(password) ==
  (CHOOSE entry \in HashedPasswords : entry[1] = password)[2]

-----------------------------------------------------------------------------
(* class API                                                               *)

host == "api.termius.com"
base_url == "https://" \o host \o "/api/"
timeout == 180

\* API.__init__
API_init(username, apikey) ==
  IF Truthy(username) /\ Truthy(apikey)
  THEN Some(TermiusAuth(username[1], apikey[1]))
  ELSE None

\* API.set_auth: the new value of self.auth.
set_auth(username, apikey) == Some(TermiusAuth(username, apikey))

request_url(endpoint) == base_url \o endpoint

DefaultSuccessStatuses == {200, 201, 202, 204}

\* Mutant: the version check is missing.
check_response_without_490(response, success_statuses) ==
  LET statuses == IF success_statuses = {} THEN DefaultSuccessStatuses
                  ELSE success_statuses
  IN  IF response.status_code \in statuses THEN None
      ELSE Some(Exception("AssertionError", None, Some(response.text)))

\* Mutant: a bare assert, without the response text as its message.
check_response_bare_assert(response, success_statuses) ==
  IF response.status_code = 490
  THEN Some(Exception("OutdatedVersion", None, Some(OutdatedVersionMessage)))
  ELSE LET statuses == IF success_statuses = {} THEN DefaultSuccessStatuses
                       ELSE success_statuses
       IN  IF response.status_code \in statuses THEN None
           ELSE Some(Exception("AssertionError", None, None))

\* API.__check_response: the exception raised, or None.
check_response(response, success_statuses) ==
  IF response.status_code = 490
  THEN Some(Exception("OutdatedVersion", None, Some(OutdatedVersionMessage)))
  ELSE LET statuses == IF success_statuses = {} THEN DefaultSuccessStatuses
                       ELSE success_statuses
       IN  IF response.status_code \in statuses THEN None
           ELSE Some(Exception("AssertionError", None, Some(response.text)))

\* Mutant: the second-factor status is not told apart.
check_login_response_without_487(response) ==
  [warned |-> response.status_code # 200,
   raised |-> check_response(response, {200})]

\* API.__check_login_response: whether the warning was logged, and the
\* exception raised or None.  AuthyTokenIssue is given the bound method
\* response.json, not its result: it carries neither status nor text.
check_login_response(response) ==
  IF response.status_code = 487
  THEN [warned |-> FALSE,
        raised |-> Some(Exception("AuthyTokenIssue", None, None))]
  ELSE [warned |-> response.status_code # 200,
        raised |-> check_response(response, {200})]

\* What a call did: the new self.auth, the requests it sent, the response
\* it got, whether it logged the login warning, and its result.
Done(auth, requests, response, warned, result) ==
  [auth |-> auth, requests |-> requests, response |-> response,
   warned |-> warned, result |-> result]

\* Mutant: the token is stored as soon as the body holds one, before the
\* response is checked.
login_eager(auth, email, password, authy_token, net) ==
  LET hashed == Hashed(password)
  IN  IF hashed = None
      THEN Done(auth, <<>>, None, FALSE,
                Raise(Exception("UnicodeEncodeError", None, None)))
      ELSE
        LET base == [password |-> hashed[1], email |-> email]
            payload == IF authy_token # None
                       THEN base @@ ("authy_token" :> authy_token[1])
                       ELSE base
            request == Request("POST", request_url("v3.1/login/"), {},
                               Some(payload), None, None)
        IN  IF net = None
            THEN Done(auth, <<request>>, None, FALSE,
                      Raise(Exception("ConnectionError", None, None)))
            ELSE
              LET response == net[1]
                  response_payload == response_json(response)
                  checked == check_login_response(response)
              IN  IF response_payload = None
                  THEN Done(auth, <<request>>, net, FALSE,
                            Raise(Exception("ValueError", None, None)))
                  ELSE IF ~HasKey(response_payload[1], "token")
                  THEN Done(auth, <<request>>, net, FALSE,
                            Raise(Exception("KeyError", None, Some("token"))))
                  ELSE IF checked.raised # None
                  THEN Done(set_auth(email, GetItem(response_payload[1], "token")),
                            <<request>>, net, checked.warned,
                            [raised |-> checked.raised, value |-> None])
                  ELSE Done(set_auth(email, GetItem(response_payload[1], "token")),
                            <<request>>, net, checked.warned,
                            Return(response_payload[1]))

\* API.login
login(auth, email, password, authy_token, net) ==
  LET hashed == Hashed(password)
  IN  IF hashed = None
      THEN Done(auth, <<>>, None, FALSE,
                Raise(Exception("UnicodeEncodeError", None, None)))
      ELSE
        LET base == [password |-> hashed[1], email |-> email]
            payload == IF authy_token # None
                       THEN base @@ ("authy_token" :> authy_token[1])
                       ELSE base
            request == Request("POST", request_url("v3.1/login/"), {},
                               Some(payload), None, None)
        IN  IF net = None
            THEN Done(auth, <<request>>, None, FALSE,
                      Raise(Exception("ConnectionError", None, None)))
            ELSE
              LET response == net[1]
                  checked == check_login_response(response)
                  response_payload == response_json(response)
              IN  IF checked.raised # None
                  THEN Done(auth, <<request>>, net, checked.warned,
                            [raised |-> checked.raised, value |-> None])
                  ELSE IF response_payload = None
                  THEN Done(auth, <<request>>, net, checked.warned,
                            Raise(Exception("ValueError", None, None)))
                  ELSE IF ~HasKey(response_payload[1], "token")
                  THEN Done(auth, <<request>>, net, checked.warned,
                            Raise(Exception("KeyError", None, Some("token"))))
                  ELSE Done(set_auth(email, GetItem(response_payload[1], "token")),
                            <<request>>, net, checked.warned,
                            Return(response_payload[1]))

\* Mutant: a call that fails its check forgets the credentials.
Crud_dropping_auth(auth, request, success_statuses, net) ==
  IF net = None
  THEN Done(auth, <<request>>, None, FALSE,
            Raise(Exception("ConnectionError", None, None)))
  ELSE
    LET response == net[1]
        raised == check_response(response, success_statuses)
        decoded == response_json(response)
    IN  IF raised # None
        THEN Done(None, <<request>>, net, FALSE,
                  [raised |-> raised, value |-> None])
        ELSE IF decoded = None
        THEN Done(auth, <<request>>, net, FALSE,
                  Raise(Exception("ValueError", None, None)))
        ELSE Done(auth, <<request>>, net, FALSE, Return(decoded[1]))

\* The common shape of post, get, delete and put: send, check, decode.
Crud(auth, request, success_statuses, net) ==
  IF net = None
  THEN Done(auth, <<request>>, None, FALSE,
            Raise(Exception("ConnectionError", None, None)))
  ELSE
    LET response == net[1]
        raised == check_response(response, success_statuses)
        decoded == response_json(response)
    IN  IF raised # None
        THEN Done(auth, <<request>>, net, FALSE,
                  [raised |-> raised, value |-> None])
        ELSE IF decoded = None
        THEN Done(auth, <<request>>, net, FALSE,
                  Raise(Exception("ValueError", None, None)))
        ELSE Done(auth, <<request>>, net, FALSE, Return(decoded[1]))

\* Mutant: 200 is taken for a created resource as well.
post_accepting_200(auth, endpoint, data, net) ==
  Crud(auth,
       Request("POST", request_url(endpoint), ApplyAuth(auth, {}),
               None, Some(data), Some(timeout)),
       {200, 201}, net)

\* API.post
post(auth, endpoint, data, net) ==
  Crud(auth,
       Request("POST", request_url(endpoint), ApplyAuth(auth, {}),
               None, Some(data), Some(timeout)),
       {201}, net)

\* API.get
get(auth, endpoint, net) ==
  Crud(auth,
       Request("GET", request_url(endpoint), ApplyAuth(auth, {}),
               None, None, Some(timeout)),
       {200}, net)

\* API.delete
delete(auth, endpoint, net) ==
  Crud(auth,
       Request("DELETE", request_url(endpoint), ApplyAuth(auth, {}),
               None, None, None),
       {200, 204}, net)

\* API.put
put(auth, endpoint, data, net) ==
  Crud(auth,
       Request("PUT", request_url(endpoint), ApplyAuth(auth, {}),
               None, Some(data), Some(timeout)),
       {200, 202}, net)

-----------------------------------------------------------------------------
(* The client as a state machine.                                          *)

VARIABLES
  auth,   \* API.auth: None or <<TermiusAuth>>
  call,   \* the call that led to this state: its arguments and what it did
  cred    \* history: the credentials last given by the constructor,
          \* set_auth or a login that returned, and which of them gave them

vars == <<auth, call, cred>>

\* The arguments of a call; None for those the operation does not take.
NoArgs ==
  [username |-> None, apikey |-> None, email |-> None, password |-> None,
   authy_token |-> None, endpoint |-> None, data |-> None]

Call(op, args, done) ==
  [op |-> op, args |-> args,
   requests |-> done.requests, response |-> done.response,
   warned |-> done.warned, result |-> done.result]

Cred(username, apikey, by) ==
  Some([username |-> username, apikey |-> apikey, by |-> by])

NoResult == [raised |-> None, value |-> None]

Init ==
  \E username \in Opt(Usernames), apikey \in Opt(ApiKeys) :
    /\ auth = API_init(username, apikey)
    /\ call = Call("init",
                   [NoArgs EXCEPT !.username = username, !.apikey = apikey],
                   Done(auth, <<>>, None, FALSE, NoResult))
    /\ cred = IF username \in {None, Some("")} \/ apikey \in {None, Some("")}
              THEN None
              ELSE Cred(username[1], apikey[1], "init")

SetAuth(username, apikey) ==
  /\ auth' = set_auth(username, apikey)
  /\ call' = Call("set_auth",
                  [NoArgs EXCEPT !.username = Some(username),
                                 !.apikey = Some(apikey)],
                  Done(auth', <<>>, None, FALSE, NoResult))
  /\ cred' = Cred(username, apikey, "set_auth")

Login(email, password, authy_token, net) ==
  LET done == login(auth, email, password, authy_token, net)
  IN  /\ auth' = done.auth
      /\ call' = Call("login",
                      [NoArgs EXCEPT !.email = Some(email),
                                     !.password = Some(password),
                                     !.authy_token = authy_token],
                      done)
      /\ cred' = IF done.result.raised = None
                 THEN Cred(email, GetItem(done.result.value[1], "token"),
                           "login")
                 ELSE cred

Post(endpoint, data, net) ==
  LET done == post(auth, endpoint, data, net)
  IN  /\ auth' = done.auth
      /\ call' = Call("post",
                      [NoArgs EXCEPT !.endpoint = Some(endpoint),
                                     !.data = Some(data)],
                      done)
      /\ cred' = cred

Get(endpoint, net) ==
  LET done == get(auth, endpoint, net)
  IN  /\ auth' = done.auth
      /\ call' = Call("get", [NoArgs EXCEPT !.endpoint = Some(endpoint)], done)
      /\ cred' = cred

Delete(endpoint, net) ==
  LET done == delete(auth, endpoint, net)
  IN  /\ auth' = done.auth
      /\ call' = Call("delete", [NoArgs EXCEPT !.endpoint = Some(endpoint)],
                      done)
      /\ cred' = cred

Put(endpoint, data, net) ==
  LET done == put(auth, endpoint, data, net)
  IN  /\ auth' = done.auth
      /\ call' = Call("put",
                      [NoArgs EXCEPT !.endpoint = Some(endpoint),
                                     !.data = Some(data)],
                      done)
      /\ cred' = cred

Next ==
  \/ \E username \in Usernames, apikey \in ApiKeys : SetAuth(username, apikey)
  \/ \E email \in Emails, password \in Passwords,
        authy_token \in Opt(AuthyTokens), net \in Responses :
       Login(email, password, authy_token, net)
  \/ \E endpoint \in Endpoints, data \in Datas, net \in Responses :
       Post(endpoint, data, net)
  \/ \E endpoint \in Endpoints, net \in Responses : Get(endpoint, net)
  \/ \E endpoint \in Endpoints, net \in Responses : Delete(endpoint, net)
  \/ \E endpoint \in Endpoints, data \in Datas, net \in Responses :
       Put(endpoint, data, net)

Spec == Init /\ [][Next]_vars

TypeOK ==
  /\ auth = None \/ (Len(auth) = 1 /\ auth[1].username \in STRING
                                      /\ auth[1].apikey \in STRING)
  /\ call.op \in {"init", "set_auth", "login", "post", "get", "delete", "put"}
  /\ Len(call.requests) <= 1

-----------------------------------------------------------------------------
(* Properties.                                                             *)

HttpOps == {"login", "post", "get", "delete", "put"}
CrudOps == {"post", "get", "delete", "put"}

\* The last call got a response from the service.
Answered == call.op \in HttpOps /\ call.response # None
Status == call.response[1].status_code
Text == call.response[1].text

Returned == call.result.raised = None /\ call.result.value # None
Raised(type) ==
  call.result.raised # None /\ call.result.raised[1].type = type

\* The call got past the status check: it returned, or it failed later,
\* while decoding the body or reading the token.
PassedCheck == Returned \/ Raised("ValueError") \/ Raised("KeyError")

\* The table of acceptable statuses per operation.
Acceptable(op) ==
  CASE op = "login" -> {200}
    [] op = "post" -> {201}
    [] op = "get" -> {200}
    [] op = "delete" -> {200, 204}
    [] op = "put" -> {200, 202}

\* The status is one the generic classification decides by the table.
TableDecides == /\ Answered
                /\ Status # 490
                /\ ~(call.op = "login" /\ Status = 487)

\* C1: whatever the operation and the client state, a response with status
\* 490 makes the call raise OutdatedVersion; it returns nothing and raises
\* nothing else.
C1_Status490RaisesOutdatedVersion ==
  (Answered /\ Status = 490) =>
     /\ Raised("OutdatedVersion")
     /\ call.result.value = None

C1_Witness ==
  /\ Answered /\ Status = 490
  /\ call.op = "delete"
  /\ auth # None
  /\ Raised("OutdatedVersion")

\* C2: for a status other than 490 (and other than 487 on login) the call
\* passes the status check exactly when the status is in the operation's
\* acceptable set, login {200}, post {201}, get {200}, delete {200, 204},
\* put {200, 202}; any other status raises the assertion failure.
C2_SuccessIffAcceptable ==
  TableDecides =>
     /\ PassedCheck <=> Status \in Acceptable(call.op)
     /\ Status \notin Acceptable(call.op) => Raised("AssertionError")

C2_Witness ==
  /\ Answered /\ call.op = "post" /\ Status = 200
  /\ Raised("AssertionError")

\* C3: a login that returns leaves the signer (email, token of the body),
\* and every get, post, put and delete of a client that was given
\* credentials carries Authorization: ApiKey username:apikey with the
\* credentials of the most recent constructor, set_auth or returned login.
C3_HeaderFromLatestCredentials ==
  /\ (call.op = "login" /\ Returned) =>
        /\ HasKey(call.result.value[1], "token")
        /\ auth = Some([username |-> call.args.email[1],
                        apikey |-> GetItem(call.result.value[1], "token")])
  /\ (call.op \in CrudOps /\ cred # None) =>
        /\ Len(call.requests) = 1
        /\ call.requests[1].headers =
             {<<"Authorization",
                "ApiKey " \o cred[1].username \o ":" \o cred[1].apikey>>}

C3_Witness ==
  /\ call.op = "get"
  /\ cred # None /\ cred[1].by = "login"
  /\ call.requests[1].headers =
       {<<"Authorization", "ApiKey a@b.com:abc123">>}

\* C4: a login whose response has status 487 raises AuthyTokenIssue and
\* leaves the signer as it was before the call.
C4_Login487KeepsSigner ==
  [][(/\ call'.op = "login"
      /\ call'.response # None
      /\ call'.response[1].status_code = 487)
     => (/\ call'.result.raised # None
         /\ call'.result.raised[1].type = "AuthyTokenIssue"
         /\ auth' = auth)]_vars

C4_Witness ==
  /\ call.op = "login" /\ Answered /\ Status = 487
  /\ Raised("AuthyTokenIssue")
  /\ auth # None

\* C5: the signer changes only in a set_auth or in a login that returns;
\* get, post, put and delete leave it unchanged, whether they succeed or
\* fail.
C5_OnlyLoginAndSetAuthChangeSigner ==
  [][/\ auth' # auth =>
          \/ call'.op = "set_auth"
          \/ call'.op = "login" /\ call'.result.raised = None
     /\ call'.op \in CrudOps => auth' = auth]_vars

C5_Witness ==
  /\ call.op \in CrudOps
  /\ Answered /\ Raised("AssertionError")
  /\ auth # None

\* C6: a delete answered with status 204 and an empty body returns to its
\* caller instead of raising while it decodes the body.
C6_Delete204EmptyBodyReturns ==
  (call.op = "delete" /\ Answered /\ Status = 204 /\ Text = BodyEmpty)
     => Returned

\* C7: a signer that is present has a non-empty identifier and a non-empty
\* secret key.
C7_SignerFieldsNonEmpty ==
  auth # None => auth[1].username # "" /\ auth[1].apikey # ""

C9_LoginSendsOneDigestedPost ==
  call.op = "login" =>
     /\ Len(call.requests) = 1
     /\ call.requests[1].method = "POST"
     /\ call.requests[1].headers = {}
     /\ LET payload == call.requests[1].data[1]
        IN  /\ Some(payload.password) = Hashed(call.args.password[1])
            /\ Len(payload.password) = 64
            /\ payload.password # call.args.password[1]
            /\ payload.email = call.args.email[1]
            /\ ("authy_token" \in DOMAIN payload) <=> (call.args.authy_token # None)
            /\ "authy_token" \in DOMAIN payload =>
                 payload.authy_token = call.args.authy_token[1]

====
